---- MODULE Spec2Model ----
(***************************************************************************)
(* Bulk Video Processor: the page's job list and its handleProcess run     *)
(* (src/unnamed/part_000), the memoized engine handle getFFmpeg            *)
(* (src/lib/ffmpeg.ts) and the archive exporter zipBlobsAsZipFile          *)
(* (src/unnamed/part_001).                                                 *)
(*                                                                         *)
(* JavaScript runs one task at a time: an action of this module is one     *)
(* task, from the event or promise settlement that starts it to the next   *)
(* await that has to wait for the engine, the network or the file system.  *)
(* Job objects are shared by reference between the React state `jobs`, the *)
(* run's local array `updated` and the progress handlers, so they live in  *)
(* a heap `obj` and the lists hold their indices.                          *)
(***************************************************************************)
EXTENDS Integers, Sequences, FiniteSets, TLC

(* ------------------------------ bounds -------------------------------- *)
\* files in one selection
MaxSel == 3
\* file selections the user makes
MaxSelections == 2
\* changes the user makes to the options
MaxChanges == 1
\* clicks on Process
MaxRuns == 2
\* callers of the exported getFFmpeg other than the page
MaxCallers == 4
\* FFmpeg instances ever created (the code creates at most one)
MaxInits == 2
\* entries in the list handed to zipBlobsAsZipFile
MaxZipFiles == 2

(* --------------------------- values and inputs ------------------------ *)
Min(a, b) == IF a <= b THEN a ELSE b

\* an optional field that is absent (error?: string, downloadUrl?: string)
undefined == <<>>
Some(v) == <<v>>

\* `null` of ffmpegSingleton / loadingPromise; instances and promises are 1, 2, ...
null == 0

\* strings whose characters matter are sequences of characters
mp4 == <<"m", "p", "4">>
webm == <<"w", "e", "b", "m">>
Formats == {"mp4", "webm"}
FormatText(format) == IF format = "mp4" THEN mp4 ELSE webm

\* the files of the folder the user picks from, in the order a picker lists them
FilePool ==
  << [name |-> <<"a", ".", "m", "o", "v">>, type |-> "video/quicktime"],
     [name |-> <<"n", ".", "t", "x", "t">>, type |-> "text/plain"],
     [name |-> <<"b", ".", "m", "p", "4">>, type |-> "video/mp4"],
     [name |-> <<"c">>, type |-> "video/webm"] >>

\* f.type.startsWith("video/")
IsVideo(f) == f.type \in {"video/quicktime", "video/mp4", "video/webm"}

\* a FileList: the first n files of the folder, n up to MaxSel
FileLists == { SubSeq(FilePool, 1, n) : n \in 0..Min(MaxSel, Len(FilePool)) }

\* the engine's fractional progress, in thousandths: -0.104, 0.255, 1.5
Ratios == {-104, 255, 1500}

\* what an awaited operation can do
Outcomes == {"ok", "fail"}

(* ------------------------------ helpers ------------------------------- *)
\* Math.round(progress * 100) of a ratio given in thousandths: floor(x + 0.5)
RoundPercent(ratio) == (ratio + 5) \div 10

\* the value the progress handler stores
ProgressValue(ratio) == Min(100, RoundPercent(ratio))

\* file.name.replace(/\.[^/.]+$/, ""): drop the last ".ext" when ext is not empty
\* and holds no "/"
StripExtension(name) ==
  LET dots == { i \in 1..Len(name) : name[i] = "." }
      last == CHOOSE i \in dots : \A j \in dots : j <= i
  IN IF dots # {} /\ last < Len(name)
        /\ \A j \in (last + 1)..Len(name) : name[j] # "/"
     THEN SubSeq(name, 1, last - 1)
     ELSE name

GetOutputName(name, format) == StripExtension(name) \o <<".">> \o FormatText(format)

DEFAULT_OPTIONS == [format |-> "mp4", resolution |-> "source", bitrate |-> "auto",
                    trimStartSec |-> undefined, trimEndSec |-> undefined]

(* ------------------------------ options ------------------------------- *)
Resolutions == {"source", "720p", "1080p"}
Bitrates == {"auto", "1M", "2.5M", "5M"}

Digits == <<"0", "1", "2", "3", "4", "5", "6", "7", "8", "9">>
DigitValue(c) == (CHOOSE d \in DOMAIN Digits : Digits[d] = c) - 1

RECURSIVE NaturalOf(_)
NaturalOf(text) ==
  IF text = <<>> THEN 0
  ELSE NaturalOf(SubSeq(text, 1, Len(text) - 1)) * 10 + DigitValue(text[Len(text)])

\* Number(e.target.value) of a number input: an optional sign and decimal digits
Number(text) == IF Head(text) = "-" THEN 0 - NaturalOf(Tail(text)) ELSE NaturalOf(text)

RECURSIVE DigitsOf(_)
DigitsOf(n) ==
  IF n < 10 THEN <<Digits[n + 1]>> ELSE DigitsOf(n \div 10) \o <<Digits[(n % 10) + 1]>>

\* String(n) of an integer
String(n) == IF n < 0 THEN <<"-">> \o DigitsOf(0 - n) ELSE DigitsOf(n)

\* what the user can leave in a trim field: nothing, "0", "7", "12", "-3" (min={0}
\* is not enforced on typed text)
TrimTexts == { <<>>, <<"0">>, <<"7">>, <<"1", "2">>, <<"-", "3">> }

\* e.target.value === "" ? undefined : Number(e.target.value)
TrimSec(text) == IF text = <<>> THEN undefined ELSE Some(Number(text))

\* the values the option controls can put into `options`
OptionValues ==
  [format : Formats, resolution : Resolutions, bitrate : Bitrates,
   trimStartSec : { TrimSec(text) : text \in TrimTexts },
   trimEndSec : { TrimSec(text) : text \in TrimTexts }]

(* ------------------------------ buildArgs ------------------------------ *)
\* typeof x === "number"
IsNumber(x) == x # undefined

\* typeof opts.trimStartSec === "number" && opts.trimStartSec > 0
HasSeek(opts) == IsNumber(opts.trimStartSec) /\ opts.trimStartSec[1] > 0

\* typeof opts.trimEndSec === "number" && typeof opts.trimStartSec === "number"
\* && opts.trimEndSec > opts.trimStartSec
HasDurationIgnoringOrder(opts) == IsNumber(opts.trimEndSec) /\ IsNumber(opts.trimStartSec)
HasDuration(opts) ==
  /\ IsNumber(opts.trimEndSec)
  /\ IsNumber(opts.trimStartSec)
  /\ opts.trimEndSec[1] > opts.trimStartSec[1]

\* the flags, character by character; values that are never taken apart are whole
FlagY == <<"-", "y">>
FlagSs == <<"-", "s", "s">>
FlagI == <<"-", "i">>
FlagT == <<"-", "t">>
FlagCv == <<"-", "c", ":", "v">>
FlagCa == <<"-", "c", ":", "a">>
FlagBv == <<"-", "b", ":", "v">>
FlagBa == <<"-", "b", ":", "a">>
FlagVf == <<"-", "v", "f">>
FlagPixFmt == <<"-", "p", "i", "x", "_", "f", "m", "t">>

\* "-c:v", codec (and the pixel format of mp4)
VideoCodecAlwaysH264(format) == <<FlagCv, <<"libx264">>, FlagPixFmt, <<"yuv420p">> >>
VideoCodec(format) ==
  IF format = "mp4"
  THEN <<FlagCv, <<"libx264">>, FlagPixFmt, <<"yuv420p">> >>
  ELSE <<FlagCv, <<"libvpx-vp9">> >>

\* "-c:a", codec, "-b:a", rate
AudioCodec(format) ==
  IF format = "mp4"
  THEN <<FlagCa, <<"aac">>, FlagBa, <<"128k">> >>
  ELSE <<FlagCa, <<"libopus">>, FlagBa, <<"96k">> >>

\* "-vf", scale filter
ScaleFilter(resolution) ==
  IF resolution = "720p"
  THEN <<FlagVf, <<"scale='min(1280,iw)':'-2':force_original_aspect_ratio=decrease">> >>
  ELSE IF resolution = "1080p"
  THEN <<FlagVf, <<"scale='min(1920,iw)':'-2':force_original_aspect_ratio=decrease">> >>
  ELSE <<>>

BuildArgs(inputName, outputName, opts) ==
  <<FlagY>>
  \o (IF HasSeek(opts) THEN <<FlagSs, String(opts.trimStartSec[1])>> ELSE <<>>)
  \o <<FlagI, inputName>>
  \o (IF HasDuration(opts)
      THEN <<FlagT, String(opts.trimEndSec[1] - opts.trimStartSec[1])>>
      ELSE <<>>)
  \o VideoCodec(opts.format)
  \o (IF opts.bitrate # "auto" THEN <<FlagBv, <<opts.bitrate>> >> ELSE <<>>)
  \o ScaleFilter(opts.resolution)
  \o AudioCodec(opts.format)
  \o <<outputName>>

(* ------------------------------- state -------------------------------- *)
VARIABLES
  obj,              \* heap of VideoJob objects
  jobs,             \* useState<VideoJob[]>: indices into obj
  options,          \* useState<Options>
  isProcessing,     \* useState(false)
  runs,             \* the invocations of handleProcess, in click order
  ffmpegSingleton,  \* module variable of ffmpeg.ts
  loadingPromise,   \* module variable of ffmpeg.ts
  loads,            \* loads[n]: state of the promise of the n-th load()
  handlers,         \* "progress" listeners registered on the engine, in order
  fs,               \* names present in the engine's virtual filesystem
  input,            \* how many selections and option changes the user has made
  acq,              \* other callers of getFFmpeg
  zip,              \* an invocation of zipBlobsAsZipFile
  args              \* what buildArgs returned for the exec in flight

vars == <<obj, jobs, options, isProcessing, runs, ffmpegSingleton, loadingPromise,
          loads, handlers, fs, input, acq, zip, args>>

pageVars == <<obj, jobs, options, isProcessing, runs>>
engineVars == <<ffmpegSingleton, loadingPromise, loads, handlers, fs>>

Callers == 1..MaxCallers

\* no export under way: nothing fetched or zipped, nothing downloaded, no object
\* URL and no anchor element left behind
NoZip == [pc |-> "idle", ready |-> <<>>, files |-> <<>>, entries |-> <<>>,
          downloads |-> <<>>, urls |-> {}, anchors |-> {}]

Init ==
  /\ obj = <<>>
  /\ jobs = <<>>
  /\ options = DEFAULT_OPTIONS
  /\ isProcessing = FALSE
  /\ runs = <<>>
  /\ ffmpegSingleton = null
  /\ loadingPromise = null
  /\ loads = <<>>
  /\ handlers = <<>>
  /\ fs = {}
  /\ input = [selections |-> 0, changes |-> 0]
  /\ acq = [c \in Callers |-> [st |-> "idle", p |-> null, h |-> null]]
  /\ zip = NoZip
  /\ args = <<>>

(* ------------------------- the page state, as a value ------------------ *)
\* The code of one task is a function from the page state to the page state.
Page == [obj |-> obj, jobs |-> jobs, runs |-> runs, isProcessing |-> isProcessing]

\* A job object nothing refers to any more is gone: the state and the runs (whose
\* `updated` arrays the progress handlers close over) are the only references.
\* The objects left keep their order and are numbered again from 1.
Collect(st) ==
  LET live == { st.jobs[k] : k \in DOMAIN st.jobs }
                \cup UNION { { st.runs[r].jobs[k] : k \in DOMAIN st.runs[r].jobs } :
                               r \in DOMAIN st.runs }
      At(id) == Cardinality({ x \in live : x <= id })
      Old(n) == CHOOSE id \in live : At(id) = n
  IN [obj |-> [n \in 1..Cardinality(live) |-> st.obj[Old(n)]],
      jobs |-> [k \in DOMAIN st.jobs |-> At(st.jobs[k])],
      runs |-> [r \in DOMAIN st.runs |->
                  [st.runs[r] EXCEPT !.jobs = [k \in DOMAIN @ |-> At(@[k])]]],
      isProcessing |-> st.isProcessing]

Commit(st) ==
  LET c == Collect(st) IN
  /\ obj' = c.obj
  /\ jobs' = c.jobs
  /\ runs' = c.runs
  /\ isProcessing' = c.isProcessing

\* updated[i] of run r (i counts from 1 here, from 0 in the code)
JobAt(st, r) == st.runs[r].jobs[st.runs[r].i]
InputName(st, r) == st.obj[JobAt(st, r)].file.name

\* `options` inside handleProcess: the value of the render whose handler was
\* clicked (useCallback(..., [jobs, options])), not the state's latest value
LatestOptions(run) == options
RunOptions(run) == run.options

\* getOutputName(job.file, options.format)
OutputName(st, r) == GetOutputName(InputName(st, r), RunOptions(st.runs[r]).format)
MimeType(format) == IF format = "mp4" THEN "video/mp4" ELSE "video/webm"

\* the engine calls a run has issued, as (job position, call) pairs
Called(st, r, call) ==
  [st EXCEPT !.runs[r].calls = @ \cup {<<st.runs[r].i, call>>}]

SetPc(st, r, pc) == [st EXCEPT !.runs[r].pc = pc]

\* job.status = "processing"; job.progress = 0
StartJob(job) == [job EXCEPT !.status = "processing", !.progress = 0]

\* job.status = "error"; job.error = String(err?.message || err)
CatchJob(job, message) == [job EXCEPT !.status = "error", !.error = Some(message)]

\* job.downloadUrl = url; job.outputName = outputName; job.status = "done";
\* job.progress = 100
FinishJob(job, url, outputName) ==
  [job EXCEPT !.downloadUrl = Some(url), !.outputName = outputName,
              !.status = "done", !.progress = 100]

\* for (...; i < updated.length; i++)
LoopAbort(i, length) == length + 1
LoopNext(i, length) == i + 1

\* The loop from its head to the first await of the next job, or to the end of
\* handleProcess: `i` is already set.
LoopHead(st, r) ==
  LET run == st.runs[r] IN
  IF run.i <= Len(run.jobs)
  THEN [st EXCEPT !.obj[run.jobs[run.i]] = StartJob(@),
                  !.jobs = run.jobs,
                  !.runs[r].pc = "arrayBuffer"]
  ELSE [st EXCEPT !.isProcessing = FALSE, !.runs[r].pc = "done"]

\* const updated = [...jobs]; for (let i = 0; ...
EnterLoop(st, r) == LoopHead([st EXCEPT !.runs[r].i = 1], r)

\* setJobs([...updated]) after the try/catch, i++, and the loop again
Continue(st, r) ==
  LoopHead([st EXCEPT !.jobs = st.runs[r].jobs,
                      !.runs[r].i = LoopNext(@, Len(st.runs[r].jobs))], r)

\* the catch block of a job, and on from there
Catch(st, r, message) ==
  Continue([st EXCEPT !.obj[JobAt(st, r)] = CatchJob(@, message),
                      !.runs[r].failed = @ \cup {st.runs[r].i}], r)

\* `await` of a rejected promise throws; handleProcess has no try around getFFmpeg
AwaitNeverThrows(outcome) == FALSE
AwaitThrows(outcome) == outcome = "rejected"

\* handleProcess after `await getFFmpeg(...)` has settled
AfterAcquire(st, r, outcome) ==
  IF AwaitThrows(outcome) THEN SetPc(st, r, "rejected") ELSE EnterLoop(st, r)

RECURSIVE ResumeRuns(_, _, _)
\* the runs in `waiting` resume in the order of their calls
ResumeRuns(st, waiting, outcome) ==
  IF waiting = {} THEN st
  ELSE LET r == CHOOSE x \in waiting : \A y \in waiting : x <= y
       IN ResumeRuns(AfterAcquire(st, r, outcome), waiting \ {r}, outcome)

(* ------------------------------ getFFmpeg ------------------------------ *)
\* neither `if (ffmpegSingleton) return` nor `if (loadingPromise) return` applies
MustLoadIgnoringPromise == ffmpegSingleton = null
MustLoad == ffmpegSingleton = null /\ loadingPromise = null

\* what a call of getFFmpeg returns to its caller: a settled outcome with the
\* handle, or the promise the caller has to wait for
GetFFmpegResult ==
  IF MustLoad THEN [outcome |-> "pending", p |-> Len(loads) + 1, h |-> null]
  ELSE IF ffmpegSingleton # null
  THEN [outcome |-> "fulfilled", p |-> null, h |-> ffmpegSingleton]
  ELSE IF loads[loadingPromise] = "rejected"
  THEN [outcome |-> "rejected", p |-> loadingPromise, h |-> null]
  ELSE [outcome |-> "pending", p |-> loadingPromise, h |-> null]

\* the effect of a call on the module: load() up to its first await, and
\* loadingPromise = load(). A listener registered here forwards to the caller's
\* onProgress (run 0 marks it; the page's onProgress does nothing).
GetFFmpegEffect(withCallback, caller) ==
  IF MustLoad
  THEN /\ Len(loads) < MaxInits
       /\ loads' = Append(loads, "pending")
       /\ loadingPromise' = Len(loads) + 1
       /\ handlers' = IF withCallback
                      THEN Append(handlers, [run |-> 0, idx |-> caller])
                      ELSE handlers
       /\ UNCHANGED <<ffmpegSingleton, fs>>
  ELSE UNCHANGED engineVars

\* another module calls getFFmpeg(onProgress?)
GetFFmpeg(c, withCallback) ==
  /\ acq[c].st = "idle"
  /\ LET res == GetFFmpegResult IN
     acq' = [acq EXCEPT ![c] =
               [st |-> CASE res.outcome = "pending" -> "waiting"
                         [] res.outcome = "fulfilled" -> "resolved"
                         [] OTHER -> "rejected",
                p |-> res.p, h |-> res.h]]
  /\ GetFFmpegEffect(withCallback, c)
  /\ UNCHANGED <<pageVars, input, zip, args>>

\* ffmpeg.load(...) of instance n settles: `ffmpegSingleton = ffmpeg; return ffmpeg`,
\* or a rejection of toBlobURL / load; then everyone awaiting that promise resumes
LoadSettles(n, outcome) ==
  /\ n \in DOMAIN loads
  /\ loads[n] = "pending"
  /\ loads' = [loads EXCEPT ![n] = outcome]
  /\ ffmpegSingleton' = IF outcome = "fulfilled" THEN n ELSE ffmpegSingleton
  /\ acq' = [c \in Callers |->
               IF acq[c].st = "waiting" /\ acq[c].p = n
               THEN [st |-> IF outcome = "fulfilled" THEN "resolved" ELSE "rejected",
                     p |-> n, h |-> IF outcome = "fulfilled" THEN n ELSE null]
               ELSE acq[c]]
  /\ Commit(ResumeRuns(Page,
                       { r \in DOMAIN runs : runs[r].pc = "getFFmpeg" /\ runs[r].p = n },
                       outcome))
  /\ UNCHANGED <<loadingPromise, handlers, fs, options, input, zip, args>>

(* ------------------------------ the page ------------------------------- *)
\* onFilesSelected(files): the FileList of the picker or of a drop
OnFilesSelected(files) ==
  LET videos == SelectSeq(files, IsVideo)
      next == [k \in 1..Len(videos) |->
                 [file |-> videos[k],
                  outputName |-> GetOutputName(videos[k].name, options.format),
                  progress |-> 0,
                  status |-> "pending",
                  error |-> undefined,
                  downloadUrl |-> undefined]]
  IN /\ input.selections < MaxSelections
     /\ input' = [input EXCEPT !.selections = @ + 1]
     /\ Commit([Page EXCEPT !.obj = obj \o next,
                               !.jobs = [k \in 1..Len(next) |-> Len(obj) + k]])
     /\ UNCHANGED <<options, engineVars, acq, zip, args>>

\* the Clear button: onClick={() => setJobs([])} disabled={isProcessing}
Clear ==
  /\ ~isProcessing
  /\ jobs # <<>>
  /\ Commit([Page EXCEPT !.jobs = <<>>])
  /\ UNCHANGED <<options, engineVars, input, acq, zip, args>>

\* the format select: setOptions((o) => ({ ...o, format }))
SetFormat(format) ==
  /\ format # options.format
  /\ input.changes < MaxChanges
  /\ input' = [input EXCEPT !.changes = @ + 1]
  /\ options' = [options EXCEPT !.format = format]
  /\ UNCHANGED <<obj, jobs, isProcessing, runs, engineVars, acq, zip, args>>

\* the Process button: disabled={isProcessing || jobs.length === 0}
CanProcessIgnoringFlag == Len(jobs) > 0
CanProcess == ~isProcessing /\ Len(jobs) > 0

\* Of an invocation that has returned only the `updated` array is still referred to
\* (by the progress handlers); its other locals are gone.
Returned(run) ==
  IF run.pc = "done"
  THEN [run EXCEPT !.options = DEFAULT_OPTIONS, !.failed = {}, !.calls = {}]
  ELSE run

\* handleProcess up to `await getFFmpeg(...)`, and past it when the handle is ready.
\* The callback closes over the jobs and options of the render that was clicked.
HandleProcess ==
  /\ CanProcess
  /\ Len(runs) < MaxRuns
  /\ LET r == Len(runs) + 1
         res == GetFFmpegResult
         run == [pc |-> "getFFmpeg", jobs |-> jobs, options |-> options, i |-> 0,
                 p |-> res.p, failed |-> {}, calls |-> {}]
         st == [Page EXCEPT !.isProcessing = TRUE,
                            !.runs = Append([x \in DOMAIN runs |-> Returned(runs[x])], run)]
     IN Commit(IF res.outcome = "pending" THEN st ELSE AfterAcquire(st, r, res.outcome))
  /\ GetFFmpegEffect(TRUE, 0)
  /\ UNCHANGED <<options, input, acq, zip, args>>

\* job.file.arrayBuffer() settles; on success ffmpeg.writeFile(inputName, data)
ArrayBufferSettles(r, outcome) ==
  /\ r \in DOMAIN runs
  /\ runs[r].pc = "arrayBuffer"
  /\ Commit(IF outcome = "ok"
            THEN SetPc(Called(Page, r, "writeFile"), r, "writeFile")
            ELSE Catch(Page, r, "arrayBuffer failed"))
  /\ UNCHANGED <<options, engineVars, input, acq, zip, args>>

\* writeFile settles; on success the progress handler is attached and
\* ffmpeg.exec(args) is called
WriteFileSettles(r, outcome) ==
  /\ r \in DOMAIN runs
  /\ runs[r].pc = "writeFile"
  /\ IF outcome = "ok"
     THEN /\ fs' = fs \cup {InputName(Page, r)}
          /\ handlers' = Append(handlers, [run |-> r, idx |-> runs[r].i])
          /\ args' = BuildArgs(InputName(Page, r), OutputName(Page, r),
                               RunOptions(runs[r]))
          /\ Commit(SetPc(Called(Page, r, "exec"), r, "exec"))
     ELSE /\ Commit(Catch(Page, r, "writeFile failed"))
          /\ UNCHANGED <<fs, handlers, args>>
  /\ UNCHANGED <<options, ffmpegSingleton, loadingPromise, loads, input, acq, zip>>

\* the jobs whose progress handler is registered on the engine: ffmpeg.on("progress",
\* ...) adds a listener and nothing ever removes one
Listening == { runs[handlers[k].run].jobs[handlers[k].idx] :
                 k \in { x \in DOMAIN handlers : handlers[x].run > 0 } }

\* the engine emits a progress event while exec is in flight: every listener runs,
\* in the order registered; each sets its own job's progress and calls
\* setJobs([...updated]) with its own run's array, so the last one's array stays
ProgressEvent(ratio) ==
  /\ \E r \in DOMAIN runs : runs[r].pc = "exec"
  /\ LET own == { x \in DOMAIN handlers : handlers[x].run > 0 }
         last == CHOOSE x \in own : \A y \in own : y <= x
     IN /\ own # {}
        /\ Commit([Page EXCEPT
                     !.obj = [id \in DOMAIN obj |->
                                IF id \in Listening
                                THEN [obj[id] EXCEPT !.progress = ProgressValue(ratio)]
                                ELSE obj[id]],
                     !.jobs = runs[handlers[last].run].jobs])
  /\ UNCHANGED <<options, engineVars, input, acq, zip, args>>

\* exec settles; on success the output is in the filesystem and readFile is called
ExecSettles(r, outcome) ==
  /\ r \in DOMAIN runs
  /\ runs[r].pc = "exec"
  /\ IF outcome = "ok"
     THEN /\ fs' = fs \cup {OutputName(Page, r)}
          /\ Commit(SetPc(Called(Page, r, "readFile"), r, "readFile"))
     ELSE /\ Commit(Catch(Page, r, "exec failed"))
          /\ UNCHANGED fs
  /\ args' = <<>>
  /\ UNCHANGED <<options, ffmpegSingleton, loadingPromise, loads, handlers, input, acq, zip>>

\* readFile settles (it fails when the entry is not there); on success the job is
\* finished and deleteFile(inputName) is called. The blob's URL is new: it is named
\* by the run and the job's position.
ReadFileSettles(r, outcome) ==
  /\ r \in DOMAIN runs
  /\ runs[r].pc = "readFile"
  /\ outcome = "ok" => OutputName(Page, r) \in fs
  /\ LET url == [run |-> r, idx |-> runs[r].i,
                 type |-> MimeType(RunOptions(runs[r]).format)]
         done == [Page EXCEPT !.obj[JobAt(Page, r)] =
                               FinishJob(@, url, OutputName(Page, r))]
     IN Commit(IF outcome = "ok"
               THEN SetPc(Called(done, r, "deleteInput"), r, "deleteInput")
               ELSE Catch(Page, r, "readFile failed"))
  /\ UNCHANGED <<options, engineVars, input, acq, zip, args>>

\* try { await ffmpeg.deleteFile(...); } catch {}: whatever the outcome, the code
\* after the statement runs
TryDeleteThrows(st, r, outcome, after) ==
  IF outcome = "ok" THEN after ELSE Catch(st, r, "deleteFile failed")
TryDelete(st, r, outcome, after) == after

\* try { await ffmpeg.deleteFile(inputName); } catch {} and then the call of
\* deleteFile(outputName). Deleting an entry that is not there fails.
DeleteInputSettles(r, outcome) ==
  /\ r \in DOMAIN runs
  /\ runs[r].pc = "deleteInput"
  /\ outcome = "ok" => InputName(Page, r) \in fs
  /\ fs' = IF outcome = "ok" THEN fs \ {InputName(Page, r)} ELSE fs
  /\ Commit(TryDelete(Page, r, outcome,
                      SetPc(Called(Page, r, "deleteOutput"), r, "deleteOutput")))
  /\ UNCHANGED <<options, ffmpegSingleton, loadingPromise, loads, handlers, input, acq, zip, args>>

\* try { await ffmpeg.deleteFile(outputName); } catch {} and on to the next job
DeleteOutputSettles(r, outcome) ==
  /\ r \in DOMAIN runs
  /\ runs[r].pc = "deleteOutput"
  /\ outcome = "ok" => OutputName(Page, r) \in fs
  /\ fs' = IF outcome = "ok" THEN fs \ {OutputName(Page, r)} ELSE fs
  /\ Commit(TryDelete(Page, r, outcome, Continue(Page, r)))
  /\ UNCHANGED <<options, ffmpegSingleton, loadingPromise, loads, handlers, input, acq, zip, args>>

(* ------------------------------ the export ----------------------------- *)
\* const allDone = jobs.length > 0 && jobs.every((j) => j.status === "done")
allDone == Len(jobs) > 0 /\ \A k \in DOMAIN jobs : obj[jobs[k]].status = "done"

\* jobs.filter((j) => j.status === "done" && j.downloadUrl)
IsReady(id) == obj[id].status = "done" /\ obj[id].downloadUrl # undefined

\* the ZIP button (disabled={!allDone}): handleZip up to `await Promise.all(...)`
HandleZip ==
  /\ allDone
  /\ zip.pc = "idle"
  /\ LET ready == SelectSeq(jobs, IsReady) IN
     zip' = IF Len(ready) = 0 THEN zip
            ELSE [zip EXCEPT !.pc = "fetch", !.ready = ready]
  /\ UNCHANGED <<pageVars, engineVars, input, acq, args>>

\* zip.file(f.name, f.blob) for each f: an entry of the same name is replaced
RECURSIVE ZipFile(_, _)
ZipFile(entries, files) ==
  IF files = <<>> THEN entries
  ELSE LET f == Head(files)
           same == { k \in DOMAIN entries : entries[k].name = f.name }
       IN ZipFile(IF same = {} THEN Append(entries, f)
                  ELSE [k \in DOMAIN entries |-> IF k \in same THEN f ELSE entries[k]],
                  Tail(files))

\* zipBlobsAsZipFile(files, zipName) up to `await zip.generateAsync(...)`
ZipCall(z, files) ==
  [z EXCEPT !.pc = "generateAsync", !.files = files, !.entries = ZipFile(<<>>, files)]

\* the fetches of the blob URLs settle; on success zipBlobsAsZipFile is called with
\* { name: j.outputName, blob } per ready job
FetchSettles(outcome) ==
  /\ zip.pc = "fetch"
  /\ zip' = IF outcome = "ok"
            THEN ZipCall(zip, [k \in DOMAIN zip.ready |->
                                 [name |-> obj[zip.ready[k]].outputName,
                                  blob |-> obj[zip.ready[k]].downloadUrl[1]]])
            ELSE [zip EXCEPT !.pc = "threw"]
  /\ UNCHANGED <<pageVars, engineVars, input, acq, args>>

\* another module calls zipBlobsAsZipFile(files, zipName)
ZipBlobsAsZipFile(files) ==
  /\ zip.pc = "idle"
  /\ zip' = ZipCall(zip, files)
  /\ UNCHANGED <<pageVars, engineVars, input, acq, args>>

\* the rest of zipBlobsAsZipFile, once the archive is generated: the object URL,
\* the hidden anchor, a.click() (the download), a.remove(), revokeObjectURL
Download(z) ==
  LET url == Cardinality(z.urls) + 1
      withUrl == [z EXCEPT !.urls = @ \cup {url}, !.anchors = @ \cup {url}]
      clicked == [withUrl EXCEPT !.downloads =
                    Append(@, [download |-> "processed-videos.zip",
                               content |-> z.entries])]
  IN [clicked EXCEPT !.anchors = @ \ {url}, !.urls = @ \ {url}, !.pc = "returned"]

GenerateSettles(outcome) ==
  /\ zip.pc = "generateAsync"
  /\ zip' = IF outcome = "ok" THEN Download(zip) ELSE [zip EXCEPT !.pc = "threw"]
  /\ UNCHANGED <<pageVars, engineVars, input, acq, args>>

(* --------------------------- specifications ---------------------------- *)
Next ==
  \/ \E files \in FileLists : OnFilesSelected(files)
  \/ Clear
  \/ \E format \in Formats : SetFormat(format)
  \/ HandleProcess
  \/ \E n \in 1..MaxInits, outcome \in {"fulfilled", "rejected"} : LoadSettles(n, outcome)
  \/ \E r \in 1..MaxRuns, outcome \in Outcomes : ArrayBufferSettles(r, outcome)
  \/ \E r \in 1..MaxRuns, outcome \in Outcomes : WriteFileSettles(r, outcome)
  \/ \E ratio \in Ratios : ProgressEvent(ratio)
  \/ \E r \in 1..MaxRuns, outcome \in Outcomes : ExecSettles(r, outcome)
  \/ \E r \in 1..MaxRuns, outcome \in Outcomes : ReadFileSettles(r, outcome)
  \/ \E r \in 1..MaxRuns, outcome \in Outcomes : DeleteInputSettles(r, outcome)
  \/ \E r \in 1..MaxRuns, outcome \in Outcomes : DeleteOutputSettles(r, outcome)

Spec == Init /\ [][Next]_vars

\* getFFmpeg under its callers alone: any number of them, in any order, before,
\* during and after the load
NextAcquire ==
  \/ \E c \in Callers, withCallback \in BOOLEAN : GetFFmpeg(c, withCallback)
  \/ \E n \in 1..MaxInits, outcome \in {"fulfilled", "rejected"} : LoadSettles(n, outcome)

SpecAcquire == Init /\ [][NextAcquire]_vars

\* the lists the exporter can be handed: names and blobs from small sets
ZipInputs ==
  UNION { [1..n -> [name : {"a.mp4", "b.mp4"}, blob : {"A", "B"}]] : n \in 0..MaxZipFiles }

\* a job as a finished run leaves it, for the page states the export starts from
JobLeft(file, status) ==
  [file |-> file, outputName |-> GetOutputName(file.name, "mp4"),
   progress |-> IF status = "done" THEN 100 ELSE 0,
   status |-> status,
   error |-> IF status = "error" THEN Some("failed") ELSE undefined,
   downloadUrl |-> IF status = "done"
                   THEN Some([run |-> 1, idx |-> 1, type |-> MimeType("mp4")])
                   ELSE undefined]

InitZip ==
  /\ obj \in UNION { [1..n -> { JobLeft(FilePool[k], status) :
                                  k \in { x \in DOMAIN FilePool : IsVideo(FilePool[x]) },
                                  status \in {"pending", "done", "error"} }] : n \in 0..2 }
  /\ jobs = [k \in DOMAIN obj |-> k]
  /\ options = DEFAULT_OPTIONS
  /\ isProcessing = FALSE
  /\ runs = <<>>
  /\ ffmpegSingleton = null
  /\ loadingPromise = null
  /\ loads = <<>>
  /\ handlers = <<>>
  /\ fs = {}
  /\ input = [selections |-> 0, changes |-> 0]
  /\ acq = [c \in Callers |-> [st |-> "idle", p |-> null, h |-> null]]
  /\ zip = NoZip
  /\ args = <<>>

NextZip ==
  \/ HandleZip
  \/ \E outcome \in Outcomes : FetchSettles(outcome)
  \/ \E files \in ZipInputs : ZipBlobsAsZipFile(files)
  \/ \E outcome \in Outcomes : GenerateSettles(outcome)

SpecZip == InitZip /\ [][NextZip]_vars

\* buildArgs under every value of its parameters: the options any setting of the
\* controls leaves, and the names handleProcess derives from a video file
InitArgs ==
  /\ obj = <<>>
  /\ jobs = <<>>
  /\ options \in OptionValues
  /\ isProcessing = FALSE
  /\ runs = <<>>
  /\ ffmpegSingleton = null
  /\ loadingPromise = null
  /\ loads = <<>>
  /\ handlers = <<>>
  /\ fs = {}
  /\ input = [selections |-> 0, changes |-> 0]
  /\ acq = [c \in Callers |-> [st |-> "idle", p |-> null, h |-> null]]
  /\ zip = NoZip
  /\ args = <<>>

VideoNames == { FilePool[k].name : k \in { x \in DOMAIN FilePool : IsVideo(FilePool[x]) } }

\* const args = buildArgs(inputName, outputName, options)
BuildArgsCall(inputName, outputName) ==
  /\ args' = BuildArgs(inputName, outputName, options)
  /\ UNCHANGED <<pageVars, engineVars, input, acq, zip>>

NextArgs ==
  \E inputName \in VideoNames, format \in Formats :
    BuildArgsCall(inputName, GetOutputName(inputName, format))

SpecArgs == InitArgs /\ [][NextArgs]_vars

(* ------------------------------- claims -------------------------------- *)
\* the invocation of handleProcess that was started last
LastRun == Len(runs)
Status(r, k) == obj[runs[r].jobs[k]].status
Pristine(job) ==
  /\ job.status = "pending"
  /\ job.progress = 0
  /\ job.error = undefined
  /\ job.downloadUrl = undefined
\* the awaits of a job that hold the engine
EngineCalls == {"writeFile", "exec", "readFile", "deleteInput", "deleteOutput"}

\* C1: in a run, every job the loop has passed is Error if one of its steps failed and
\* Done if none did, whatever the other jobs did; the run ends only when it has
\* passed every job, and until then it is at one of its jobs: a failure of job K
\* never keeps jobs K+1..N from being processed.
C1_FailureIsolation ==
  LastRun > 0 =>
    LET run == runs[LastRun] IN
    /\ \A k \in DOMAIN run.jobs :
         k < run.i => Status(LastRun, k) = IF k \in run.failed THEN "error" ELSE "done"
    /\ run.failed \subseteq 1..run.i
    /\ run.pc = "done" => run.i = Len(run.jobs) + 1
    /\ run.pc \notin {"done", "rejected", "getFFmpeg"} => run.i \in DOMAIN run.jobs

\* a run of two jobs has ended: the first failed, the second is Done
C1_Witness ==
  /\ LastRun > 0
  /\ runs[LastRun].pc = "done"
  /\ Len(runs[LastRun].jobs) = 2
  /\ runs[LastRun].failed = {1}
  /\ Status(LastRun, 1) = "error"
  /\ Status(LastRun, 2) = "done"

\* C2: whatever the order of the calls of getFFmpeg, before, during and after the
\* load, at most one FFmpeg instance is ever created and loaded, and every caller
\* whose call resolves holds that one instance.
C2_Memoized ==
  /\ Len(loads) <= 1
  /\ \A c \in Callers : acq[c].st = "resolved" => acq[c].h = 1 /\ ffmpegSingleton = 1
  /\ \A c, d \in Callers :
       acq[c].st = "resolved" /\ acq[d].st = "resolved" => acq[c].h = acq[d].h

\* two callers that waited for the load in flight and one that called after it have
\* all resolved
C2_Witness ==
  \E c, d, e \in Callers :
    /\ c # d
    /\ acq[c].st = "resolved" /\ acq[c].p = 1
    /\ acq[d].st = "resolved" /\ acq[d].p = 1
    /\ acq[e].st = "resolved" /\ acq[e].p = null

\* C3: once a job is Done or Error its status never changes again.
C3_TerminalAbsorbing ==
  [][\A r \in DOMAIN runs : \A k \in DOMAIN runs[r].jobs :
       Status(r, k) \in {"done", "error"} =>
         obj'[runs'[r].jobs[k]].status = Status(r, k)]_vars

\* C4: a job has an error message exactly when it is Error and an output artifact
\* exactly when it is Done.
C4_ErrorIffErrorUrlIffDone ==
  \A id \in DOMAIN obj :
    /\ obj[id].error # undefined <=> obj[id].status = "error"
    /\ obj[id].downloadUrl # undefined <=> obj[id].status = "done"

\* C5: at most one job is Processing and at most one invocation holds the engine;
\* a run has issued engine calls only for the jobs up to its current one, and every
\* job before the current one is Done or Error.
C5_MutualExclusion ==
  /\ Cardinality({ id \in DOMAIN obj : obj[id].status = "processing" }) <= 1
  /\ Cardinality({ r \in DOMAIN runs : runs[r].pc \in EngineCalls }) <= 1
  /\ \A r \in DOMAIN runs :
       /\ \A c \in runs[r].calls : c[1] <= runs[r].i
       /\ runs[r].pc \in EngineCalls \cup {"arrayBuffer"} =>
            \A k \in DOMAIN runs[r].jobs :
              /\ k < runs[r].i => Status(r, k) \in {"done", "error"}
              /\ k > runs[r].i => Status(r, k) # "processing"

\* the second job's exec is in flight after the first job has ended
C5_Witness ==
  \E r \in DOMAIN runs :
    /\ runs[r].pc = "exec"
    /\ runs[r].i = 2
    /\ Status(r, 1) \in {"done", "error"}
    /\ Status(r, 2) = "processing"

\* C6: for every job a run has passed, Done or Error, deleteFile was called for its
\* input entry and for its output entry before the next job began or the run ended.
C6_CleanupAlwaysAttempted ==
  LastRun > 0 =>
    \A k \in DOMAIN runs[LastRun].jobs :
      k < runs[LastRun].i =>
        {<<k, "deleteInput">>, <<k, "deleteOutput">>} \subseteq runs[LastRun].calls

\* C7: when the acquisition a run awaited has failed, the run has stopped there: it
\* has issued no engine call and all of its jobs are as they were selected, Pending
\* with progress 0, no error message and no output artifact.
C7_AcquireFailureProcessesNothing ==
  \A r \in DOMAIN runs :
    (runs[r].p # null /\ loads[runs[r].p] = "rejected") =>
      /\ runs[r].pc = "rejected"
      /\ runs[r].calls = {}
      /\ \A k \in DOMAIN handlers : handlers[k].run # r
      /\ \A k \in DOMAIN runs[r].jobs : Pristine(obj[runs[r].jobs[k]])

\* a run over two jobs whose acquisition failed
C7_Witness ==
  \E r \in DOMAIN runs :
    /\ runs[r].pc = "rejected"
    /\ loads[runs[r].p] = "rejected"
    /\ Len(runs[r].jobs) = 2

\* C8: every job's progress is in 0..100.
C8_ProgressInRange == \A id \in DOMAIN obj : obj[id].progress \in 0..100

\* C9: no step lowers the progress of a job that is Processing before and after it.
C9_ProgressMonotone ==
  [][\A r \in DOMAIN runs : \A k \in DOMAIN runs[r].jobs :
       (Status(r, k) = "processing" /\ obj'[runs'[r].jobs[k]].status = "processing") =>
         obj'[runs'[r].jobs[k]].progress >= obj[runs[r].jobs[k]].progress]_vars

\* C10: an export that was handed an empty list and has returned has triggered no
\* download.
C10_EmptyExportNoDownload ==
  (zip.pc = "returned" /\ zip.files = <<>>) => zip.downloads = <<>>

\* the positions of a flag in the built arguments
Positions(flag) == { k \in DOMAIN args : args[k] = flag }
\* exactly one occurrence of the flag, followed by the value
OnePair(flag, value) ==
  /\ Cardinality(Positions(flag)) = 1
  /\ \A k \in Positions(flag) : k < Len(args) /\ args[k + 1] = value
\* trim-start, an unset one counting as 0
StartOrZero(opts) == IF IsNumber(opts.trimStartSec) THEN opts.trimStartSec[1] ELSE 0

\* C11: when trim-end is unset, or is not greater than trim-start (an unset
\* trim-start compared as 0), the arguments buildArgs returns hold no "-t".
C11_NoDurationFlag ==
  (/\ args # <<>>
   /\ \/ ~IsNumber(options.trimEndSec)
      \/ options.trimEndSec[1] <= StartOrZero(options)) =>
    Positions(FlagT) = {}

\* built from a trim-end that is set and below a positive trim-start
C11_Witness ==
  /\ args # <<>>
  /\ HasSeek(options)
  /\ IsNumber(options.trimEndSec)
  /\ options.trimEndSec[1] < options.trimStartSec[1]
  /\ Positions(FlagSs) # {}

\* C12: whatever the options, the built arguments hold exactly one "-c:v" and
\* exactly one "-c:a", each followed by the codec of the chosen container:
\* libx264 and aac for mp4, libvpx-vp9 and libopus for webm.
C12_OneCodecPairEach ==
  args # <<>> =>
    /\ OnePair(FlagCv, IF options.format = "mp4" THEN <<"libx264">> ELSE <<"libvpx-vp9">>)
    /\ OnePair(FlagCa, IF options.format = "mp4" THEN <<"aac">> ELSE <<"libopus">>)

\* built for webm with a bitrate, a resolution cap and a trim window
C12_Witness ==
  /\ args # <<>>
  /\ options.format = "webm"
  /\ options.bitrate # "auto"
  /\ options.resolution # "source"
  /\ HasDuration(options)
  /\ Positions(FlagBv) # {} /\ Positions(FlagVf) # {}

\* C15: when trim-end is set and greater than trim-start (an unset trim-start
\* counting as 0), the built arguments hold exactly one "-t", after "-i", followed
\* by trim-end minus trim-start; and when trim-start is set and positive, "-ss"
\* followed by trim-start stands before "-i".
C15_DurationAndSeek ==
  args # <<>> =>
    /\ (IsNumber(options.trimEndSec)
        /\ options.trimEndSec[1] > StartOrZero(options)) =>
          /\ OnePair(FlagT, String(options.trimEndSec[1] - StartOrZero(options)))
          /\ \A t \in Positions(FlagT), i \in Positions(FlagI) : i < t
    /\ HasSeek(options) =>
          /\ OnePair(FlagSs, String(options.trimStartSec[1]))
          /\ \A x \in Positions(FlagSs), i \in Positions(FlagI) : x < i

\* the files of the job list, in order
FilesOf(heap, list) == [k \in DOMAIN list |-> heap[list[k]].file]

\* C13: a step that makes a selection leaves the job list with one job per selected
\* video file, in selection order, each Pending with progress 0; and once a
\* selection was made, the files of the job list change only by a later selection
\* or by clearing the list: the jobs of an earlier selection never come back.
C13_SelectionReplacesJobs ==
  [][/\ input'.selections # input.selections =>
          /\ \E files \in FileLists : FilesOf(obj', jobs') = SelectSeq(files, IsVideo)
          /\ \A k \in DOMAIN jobs' :
               obj'[jobs'[k]].status = "pending" /\ obj'[jobs'[k]].progress = 0
     /\ (input'.selections = input.selections /\ input.selections > 0) =>
          \/ jobs' = <<>>
          \/ FilesOf(obj', jobs') = FilesOf(obj, jobs)]_vars

\* C14: the run in progress (or just ended) has built the arguments of its exec in
\* flight, and the output name and media type of every job it has finished, from
\* the options of the render its Process click came from.
C14_OptionsSnapshot ==
  LastRun > 0 =>
    LET run == runs[LastRun]
        Name(k) == obj[run.jobs[k]].file.name
        Finished(k) == /\ k \notin run.failed
                       /\ \/ k < run.i
                          \/ k = run.i /\ run.pc \in {"deleteInput", "deleteOutput"}
    IN /\ run.pc = "exec" =>
            args = BuildArgs(Name(run.i), GetOutputName(Name(run.i), run.options.format),
                             run.options)
       /\ \A k \in DOMAIN run.jobs :
            Finished(k) =>
              /\ obj[run.jobs[k]].outputName = GetOutputName(Name(k), run.options.format)
              /\ obj[run.jobs[k]].downloadUrl =
                    Some([run |-> LastRun, idx |-> k, type |-> MimeType(run.options.format)])

\* the format was changed while the run was at its first job; the run has finished
\* that job and has the exec of its second job in flight
C14_Witness ==
  /\ LastRun > 0
  /\ runs[LastRun].pc = "exec"
  /\ runs[LastRun].i = 2
  /\ 1 \notin runs[LastRun].failed
  /\ options.format # runs[LastRun].options.format

\* the job object whose exec is in flight
InFlight == { runs[r].jobs[runs[r].i] : r \in { x \in DOMAIN runs : runs[x].pc = "exec" } }

\* C16: a progress event changes the progress of no job other than the one whose
\* exec is in flight.
C16_ProgressScopedToJob ==
  [][(\E ratio \in Ratios : ProgressEvent(ratio)) =>
       \A r \in DOMAIN runs : \A k \in DOMAIN runs[r].jobs :
         runs[r].jobs[k] \notin InFlight =>
           obj'[runs'[r].jobs[k]].progress = obj[runs[r].jobs[k]].progress]_vars

\* C17: every job that is Done has progress 100.
C17_DoneHasFullProgress ==
  \A id \in DOMAIN obj : obj[id].status = "done" => obj[id].progress = 100

\* C18: from a state in which a run awaits a deleteFile of its job, no step changes
\* that job's status (Done), its output artifact or its error field, or adds it to
\* the failed jobs; and the run's next step takes it to the next deleteFile, the
\* next job or the end of the run, whatever the deletion's outcome.
C18_CleanupFailureSwallowed ==
  [][\A r \in DOMAIN runs :
       runs[r].pc \in {"deleteInput", "deleteOutput"} =>
         LET k == runs[r].i
             before == obj[runs[r].jobs[k]]
             after == obj'[runs'[r].jobs[k]]
         IN /\ before.status = "done" /\ after.status = "done"
            /\ before.downloadUrl # undefined /\ after.downloadUrl = before.downloadUrl
            /\ after.error = before.error
            /\ runs'[r].failed = runs[r].failed
            /\ runs'[r].pc \in (IF runs[r].pc = "deleteInput"
                                 THEN {"deleteInput", "deleteOutput"}
                                 ELSE {"deleteOutput", "arrayBuffer", "done"})
            /\ runs'[r].pc \in {"arrayBuffer", "done"} => runs'[r].i = k + 1]_vars

\* both deletions of the first job failed (its entries are still there), the job is
\* Done and the run is at its second job
C18_Witness ==
  \E r \in DOMAIN runs :
    /\ runs[r].i = 2
    /\ runs[r].pc = "arrayBuffer"
    /\ 1 \notin runs[r].failed
    /\ Status(r, 1) = "done"
    /\ obj[runs[r].jobs[1]].file.name # obj[runs[r].jobs[1]].outputName
    /\ {obj[runs[r].jobs[1]].file.name, obj[runs[r].jobs[1]].outputName} \subseteq fs

\* C19: isProcessing is true only while an invocation of handleProcess is in
\* progress, that is, has neither returned nor thrown.
C19_FlagOnlyWhileRunning ==
  isProcessing => \E r \in DOMAIN runs : runs[r].pc \notin {"done", "rejected"}

\* C20: the arguments of an exec name different entries as input and as output.
C20_InputOutputDiffer ==
  args # <<>> => \A i \in Positions(FlagI) : args[i + 1] # args[Len(args)]

====
